---- MODULE Spec2Model ----
(***************************************************************************)
(* Model of the stori-challenge backend core: the in-memory transaction     *)
(* store (repository.JSONRepository), the analytics engine                  *)
(* (service.AnalyticsService) and the advisory service (service.AIService). *)
(*                                                                          *)
(* Conventions                                                              *)
(*  - A float64 amount is an integer number of tenths of a cent (three      *)
(*    decimals); roundToTwo turns it into an integer number of cents, and   *)
(*    every reported monetary value is in cents.  Percentages and the       *)
(*    savings rate are integers in hundredths of a percent.                 *)
(*  - A date string "YYYY-MM-DD" is the tuple <<y, m, d>> of its three      *)
(*    numeric fields, the empty string is <<>>.  time.Parse accepts it only *)
(*    when the fields name a calendar day.                                  *)
(*  - A time.Time (always midnight UTC here) is the record                  *)
(*    [year, month, day].                                                   *)
(*  - A Go string of free text is a sequence of atoms: single characters    *)
(*    ("-", " ", "\n", ...), whole marker words ("INSIGHTS:") and opaque    *)
(*    chunks of text.                                                       *)
(***************************************************************************)
EXTENDS Integers, Sequences, FiniteSets, TLC

VARIABLES
    transactions,   \* JSONRepository.transactions
    last,           \* outcome of the most recent repository / analytics call
    bounds,         \* outcome of the most recent JSONRepository.GetDateRange
    held,           \* the slice a caller of the repository holds, and what
                    \* its first GetAll returned
    procs,          \* the locals of each analytics call in progress
    apiKey,         \* AIService.apiKey
    summary,        \* the CategorySummary handed to the advisory service
    pc,             \* position of the GetFinancialAdvice invocation
    calls,          \* outbound model calls issued by the current invocation
    reply,          \* what the transport handed back for the outbound call
    advice,         \* what GetFinancialAdvice returned: [resp, err]
    advice2         \* what a second heuristic call on the same summary returned

vars == <<transactions, last, bounds, held, procs, apiKey, summary, pc, calls, reply, advice, advice2>>

(***************************************************************************)
(* Bounds of the model                                                      *)
(***************************************************************************)
MaxTx == 2          \* longest store explored
MaxLines == 4       \* most lines in a model response text

(***************************************************************************)
(* domain: errors                                                           *)
(***************************************************************************)
NoError == "nil"
ErrInvalidDate == "ErrInvalidDate"
ErrInvalidCategory == "ErrInvalidCategory"
ErrInvalidType == "ErrInvalidType"
ErrInvalidAmount == "ErrInvalidAmount"
ErrNoTransactions == "ErrNoTransactions"
ErrInvalidDateRange == "ErrInvalidDateRange"

(***************************************************************************)
(* time: parsing, comparison, formatting                                    *)
(***************************************************************************)
IsLeap(y) == (y % 4 = 0 /\ y % 100 # 0) \/ y % 400 = 0

DaysIn(y, m) ==
    IF m = 2 THEN (IF IsLeap(y) THEN 29 ELSE 28)
    ELSE IF m \in {4, 6, 9, 11} THEN 30 ELSE 31

ZeroTime == [year |-> 1, month |-> 1, day |-> 1]

\* time.Parse("2006-01-02", s)
TimeParse(s) ==
    IF Len(s) = 3 /\ s[2] \in 1..12 /\ s[3] \in 1..DaysIn(s[1], s[2])
    THEN [t |-> [year |-> s[1], month |-> s[2], day |-> s[3]], err |-> NoError]
    ELSE [t |-> ZeroTime, err |-> ErrInvalidDate]

Before(a, b) ==
    \/ a.year < b.year
    \/ a.year = b.year /\ a.month < b.month
    \/ a.year = b.year /\ a.month = b.month /\ a.day < b.day

After(a, b) == Before(b, a)

Equal(a, b) == a.year = b.year /\ a.month = b.month /\ a.day = b.day

\* t.Format("2006-01-02") and t.Format("2006-01")
FormatDate(t) == <<t.year, t.month, t.day>>
FormatYearMonth(t) == <<t.year, t.month>>

(***************************************************************************)
(* domain: Transaction                                                      *)
(***************************************************************************)
IsIncome(tx) == tx.type = "income"
IsExpense(tx) == tx.type = "expense"
\* AbsoluteAmount keeping the sign.
AbsoluteAmount_Signed(tx) == tx.amount

AbsoluteAmount(tx) == IF tx.amount < 0 THEN -tx.amount ELSE tx.amount
ParseDate(tx) == TimeParse(tx.date)

GetYearMonth(tx) ==
    LET p == ParseDate(tx)
    IN  IF p.err # NoError THEN [ym |-> <<>>, err |-> p.err]
        ELSE [ym |-> FormatYearMonth(p.t), err |-> NoError]

\* Validate looking at the category before the date.
Validate_CategoryFirst(tx) ==
    IF tx.category = "" THEN ErrInvalidCategory
    ELSE IF tx.date = <<>> THEN ErrInvalidDate
    ELSE IF ParseDate(tx).err # NoError THEN ErrInvalidDate
    ELSE IF tx.type # "income" /\ tx.type # "expense" THEN ErrInvalidType
    ELSE IF tx.type = "income" /\ tx.amount < 0 THEN ErrInvalidAmount
    ELSE IF tx.type = "expense" /\ tx.amount > 0 THEN ErrInvalidAmount
    ELSE NoError

Validate(tx) ==
    IF tx.date = <<>> THEN ErrInvalidDate
    ELSE IF ParseDate(tx).err # NoError THEN ErrInvalidDate
    ELSE IF tx.category = "" THEN ErrInvalidCategory
    ELSE IF tx.type # "income" /\ tx.type # "expense" THEN ErrInvalidType
    ELSE IF tx.type = "income" /\ tx.amount < 0 THEN ErrInvalidAmount
    ELSE IF tx.type = "expense" /\ tx.amount > 0 THEN ErrInvalidAmount
    ELSE NoError

(***************************************************************************)
(* repository: JSONRepository                                               *)
(***************************************************************************)
\* The constructor runs Validate on every record and drops the verdict:
\* every decoded list becomes the store.
NewJSONRepository(data) == data

\* GetAll without the emptiness check.
GetAll_NoEmptyCheck(txs) == [val |-> txs, err |-> NoError, shared |-> FALSE]

\* GetAll handing out the store's own slice instead of a copy.
GetAll_Alias(txs) ==
    IF Len(txs) = 0 THEN [val |-> <<>>, err |-> ErrNoTransactions, shared |-> FALSE]
    ELSE [val |-> txs, err |-> NoError, shared |-> TRUE]

\* shared: whether the returned slice has the store's backing array; the
\* result is made with make and filled with copy, so it has its own.
GetAll(txs) ==
    IF Len(txs) = 0 THEN [val |-> <<>>, err |-> ErrNoTransactions, shared |-> FALSE]
    ELSE [val |-> txs, err |-> NoError, shared |-> FALSE]

InRange(tx, start, end) ==
    LET p == ParseDate(tx)
    IN  /\ p.err = NoError
        /\ (Equal(p.t, start) \/ After(p.t, start))
        /\ (Equal(p.t, end) \/ Before(p.t, end))

\* GetByDateRange with the upper bound excluded.
GetByDateRange_ExclusiveEnd(txs, start, end) ==
    IF After(start, end) THEN [val |-> <<>>, err |-> ErrInvalidDateRange]
    ELSE LET filtered ==
                 SelectSeq(txs, LAMBDA tx :
                     /\ ParseDate(tx).err = NoError
                     /\ (Equal(ParseDate(tx).t, start) \/ After(ParseDate(tx).t, start))
                     /\ Before(ParseDate(tx).t, end))
         IN  IF Len(filtered) = 0 THEN [val |-> <<>>, err |-> ErrNoTransactions]
             ELSE [val |-> filtered, err |-> NoError]

\* GetByDateRange with the range check after the emptiness check.
GetByDateRange_FilterFirst(txs, start, end) ==
    LET filtered == SelectSeq(txs, LAMBDA tx : InRange(tx, start, end))
    IN  IF Len(filtered) = 0 THEN [val |-> <<>>, err |-> ErrNoTransactions]
        ELSE IF After(start, end) THEN [val |-> <<>>, err |-> ErrInvalidDateRange]
        ELSE [val |-> filtered, err |-> NoError]

GetByDateRange(txs, start, end) ==
    IF After(start, end) THEN [val |-> <<>>, err |-> ErrInvalidDateRange]
    ELSE LET filtered == SelectSeq(txs, LAMBDA tx : InRange(tx, start, end))
         IN  IF Len(filtered) = 0 THEN [val |-> <<>>, err |-> ErrNoTransactions]
             ELSE [val |-> filtered, err |-> NoError]

GetByType(txs, txType) ==
    LET filtered == SelectSeq(txs, LAMBDA tx : tx.type = txType)
    IN  IF Len(filtered) = 0 THEN [val |-> <<>>, err |-> ErrNoTransactions]
        ELSE [val |-> filtered, err |-> NoError]

GetByCategory(txs, category) ==
    LET filtered == SelectSeq(txs, LAMBDA tx : tx.category = category)
    IN  IF Len(filtered) = 0 THEN [val |-> <<>>, err |-> ErrNoTransactions]
        ELSE [val |-> filtered, err |-> NoError]

\* The loop of GetDateRange / getDateRangeFromTransactions from record i on:
\* acc = [first, minDate, maxDate].
RECURSIVE DateRangeLoop(_, _, _)
DateRangeLoop(txs, i, acc) ==
    IF i > Len(txs) THEN acc
    ELSE LET p == ParseDate(txs[i])
         IN  IF p.err # NoError THEN DateRangeLoop(txs, i + 1, acc)
             ELSE IF acc.first
             THEN DateRangeLoop(txs, i + 1,
                      [first |-> FALSE, minDate |-> p.t, maxDate |-> p.t])
             ELSE DateRangeLoop(txs, i + 1,
                      [first |-> FALSE,
                       minDate |-> IF Before(p.t, acc.minDate) THEN p.t ELSE acc.minDate,
                       maxDate |-> IF After(p.t, acc.maxDate) THEN p.t ELSE acc.maxDate])

GetDateRange(txs) ==
    IF Len(txs) = 0
    THEN [start |-> ZeroTime, end |-> ZeroTime, err |-> ErrNoTransactions]
    ELSE LET acc == DateRangeLoop(txs, 1,
                        [first |-> TRUE, minDate |-> ZeroTime, maxDate |-> ZeroTime])
         IN  IF acc.first
             THEN [start |-> ZeroTime, end |-> ZeroTime, err |-> ErrNoTransactions]
             ELSE [start |-> acc.minDate, end |-> acc.maxDate, err |-> NoError]

Count(txs) == Len(txs)

(***************************************************************************)
(* service: the pass-through over GetByDateRange                            *)
(***************************************************************************)
GetTransactionsByDateRange(txs, start, end) ==
    LET r == GetByDateRange(txs, start, end)
    IN  IF r.err # NoError THEN [val |-> <<>>, err |-> r.err]
        ELSE [val |-> [Transactions |-> r.val,
                       Count |-> Len(r.val),
                       Period |-> [Start |-> FormatDate(start),
                                   End |-> FormatDate(end)]],
              err |-> NoError]

(***************************************************************************)
(* service: AnalyticsService                                                *)
(***************************************************************************)
\* math.Round(num / den) for den > 0: nearest integer, halves away from zero.
RoundDiv(num, den) ==
    IF num >= 0 THEN (2 * num + den) \div (2 * den)
    ELSE -((2 * (-num) + den) \div (2 * den))

\* math.Round(val * 100) / 100: an amount in tenths of a cent to the nearest
\* cent.
roundToTwo(val) == RoundDiv(val, 10)

\* A value already rounded to cents, as the float64 it is held in.
FromCents(c) == c * 10

EmptyMap == [c \in {} |-> [Total |-> 0, Count |-> 0, Percentage |-> 0]]

aggregateCategory(categories, tx) ==
    LET old == IF tx.category \in DOMAIN categories
               THEN categories[tx.category]
               ELSE [Total |-> 0, Count |-> 0, Percentage |-> 0]
    IN  [c \in DOMAIN categories \cup {tx.category} |->
            IF c = tx.category
            THEN [old EXCEPT !.Total = old.Total + AbsoluteAmount(tx),
                             !.Count = old.Count + 1]
            ELSE categories[c]]

\* The aggregation loop of GetCategorySummary from record i on:
\* acc = [income, expenses, totalIncome, totalExpenses].
RECURSIVE AggregateLoop(_, _, _)
AggregateLoop(txs, i, acc) ==
    IF i > Len(txs) THEN acc
    ELSE LET tx == txs[i]
         IN  IF IsIncome(tx)
             THEN AggregateLoop(txs, i + 1,
                      [acc EXCEPT !.totalIncome = acc.totalIncome + tx.amount,
                                  !.income = aggregateCategory(acc.income, tx)])
             ELSE IF IsExpense(tx)
             THEN AggregateLoop(txs, i + 1,
                      [acc EXCEPT !.totalExpenses = acc.totalExpenses + AbsoluteAmount(tx),
                                  !.expenses = aggregateCategory(acc.expenses, tx)])
             ELSE AggregateLoop(txs, i + 1, acc)

\* math.Round(num / den * 100 * 100) / 100 for den > 0, in hundredths of a
\* percent, by long division so that no intermediate product leaves the
\* integers at hand; equal to RoundDiv(num * 10000, den).
PercentOf(num, den) ==
    LET a == IF num >= 0 THEN num ELSE -num
        r0 == a % den
        r1 == (r0 * 100) % den
        r2 == (r1 * 100) % den
        mag == (a \div den) * 10000 + ((r0 * 100) \div den) * 100
               + ((r1 * 100) \div den) + (IF 2 * r2 >= den THEN 1 ELSE 0)
    IN  IF num >= 0 THEN mag ELSE -mag

calculatePercentages(categories, total) ==
    [c \in DOMAIN categories |->
        [Total |-> roundToTwo(categories[c].Total),
         Count |-> categories[c].Count,
         Percentage |-> IF total > 0
                        THEN PercentOf(categories[c].Total, total)
                        ELSE 0]]

\* getDateRangeFromTransactions reporting no error when no date parses.
getDateRangeFromTransactions_NoError(txs) == [GetDateRange(txs) EXCEPT !.err = NoError]

getDateRangeFromTransactions(txs) == GetDateRange(txs)

\* calculateMonthsBetween without the month the period starts in.
calculateMonthsBetween_Exclusive(start, end) ==
    (end.year - start.year) * 12 + (end.month - start.month)

calculateMonthsBetween(start, end) ==
    (end.year - start.year) * 12 + (end.month - start.month) + 1

\* CalculateSavingsRate without the factor 100: the rate as a fraction.
CalculateSavingsRate_Fraction(fs) ==
    IF fs.TotalIncome > 0
    THEN [fs EXCEPT !.SavingsRate = RoundDiv(fs.NetSavings * 100, fs.TotalIncome)]
    ELSE [fs EXCEPT !.SavingsRate = 0]

CalculateSavingsRate(fs) ==
    IF fs.TotalIncome > 0
    THEN [fs EXCEPT !.SavingsRate = PercentOf(fs.NetSavings, fs.TotalIncome)]
    ELSE [fs EXCEPT !.SavingsRate = 0]

\* What GetCategorySummary starts its loop with.
NoTotals == [income |-> EmptyMap, expenses |-> EmptyMap,
             totalIncome |-> 0, totalExpenses |-> 0]

\* GetCategorySummary after its loop: acc is what the loop left, all the
\* slice GetAll returned.
SummaryResult(acc, all) ==
    LET range == getDateRangeFromTransactions(all)
    IN  IF range.err # NoError THEN [val |-> <<>>, err |-> range.err]
        ELSE [val |->
                [Income |-> calculatePercentages(acc.income, acc.totalIncome),
                 Expenses |-> calculatePercentages(acc.expenses, acc.totalExpenses),
                 Summary |-> CalculateSavingsRate(
                     [TotalIncome |-> roundToTwo(acc.totalIncome),
                      TotalExpenses |-> roundToTwo(acc.totalExpenses),
                      NetSavings |-> roundToTwo(acc.totalIncome - acc.totalExpenses),
                      SavingsRate |-> 0]),
                 Period |-> [Start |-> FormatDate(range.start),
                             End |-> FormatDate(range.end),
                             Months |-> calculateMonthsBetween(range.start, range.end)]],
              err |-> NoError]

GetCategorySummary(txs) ==
    IF GetAll(txs).err # NoError THEN [val |-> <<>>, err |-> GetAll(txs).err]
    ELSE SummaryResult(AggregateLoop(GetAll(txs).val, 1, NoTotals), GetAll(txs).val)

\* The grouping loop of GetTimeline from record i on: monthlyData maps a
\* year-month key to its point.
RECURSIVE MonthlyLoop(_, _, _)
MonthlyLoop(txs, i, monthlyData) ==
    IF i > Len(txs) THEN monthlyData
    ELSE LET tx == txs[i]
             k == GetYearMonth(tx)
             old == IF k.ym \in DOMAIN monthlyData THEN monthlyData[k.ym]
                    ELSE [Period |-> k.ym, Income |-> 0, Expenses |-> 0, Net |-> 0]
             new == IF IsIncome(tx) THEN [old EXCEPT !.Income = old.Income + tx.amount]
                    ELSE IF IsExpense(tx)
                    THEN [old EXCEPT !.Expenses = old.Expenses + AbsoluteAmount(tx)]
                    ELSE old
         IN  IF k.err # NoError THEN MonthlyLoop(txs, i + 1, monthlyData)
             ELSE MonthlyLoop(txs, i + 1,
                      [m \in DOMAIN monthlyData \cup {k.ym} |->
                          IF m = k.ym THEN new ELSE monthlyData[m]])

\* The comparison of the sort turned around.
PeriodLess_Descending(a, b) == b[1] < a[1] \/ (b[1] = a[1] /\ b[2] < a[2])

\* "YYYY-MM" < "YYYY-MM" on zero-padded keys
PeriodLess(a, b) == a[1] < b[1] \/ (a[1] = b[1] /\ a[2] < b[2])

\* sort.Slice by Period over the points of the map (the keys are distinct)
RECURSIVE SortByPeriod(_)
SortByPeriod(points) ==
    IF points = {} THEN <<>>
    ELSE LET least == CHOOSE p \in points :
                          \A q \in points : q = p \/ PeriodLess(p.Period, q.Period)
         IN  <<least>> \o SortByPeriod(points \ {least})

\* What GetTimeline starts its loop with.
NoMonths == [m \in {} |-> [Period |-> <<>>, Income |-> 0, Expenses |-> 0, Net |-> 0]]

\* GetTimeline after its grouping loop: rounding, net, sort.
TimelineResult(monthlyData) ==
    LET rounded == [m \in DOMAIN monthlyData |->
            [Period |-> monthlyData[m].Period,
             Income |-> roundToTwo(monthlyData[m].Income),
             Expenses |-> roundToTwo(monthlyData[m].Expenses),
             Net |-> roundToTwo(FromCents(roundToTwo(monthlyData[m].Income))
                                - FromCents(roundToTwo(monthlyData[m].Expenses)))]]
    IN  [val |-> [Timeline |-> SortByPeriod({rounded[m] : m \in DOMAIN rounded}),
                  Aggregation |-> "monthly"],
         err |-> NoError]

GetTimeline(txs) ==
    IF GetAll(txs).err # NoError THEN [val |-> <<>>, err |-> GetAll(txs).err]
    ELSE TimelineResult(MonthlyLoop(GetAll(txs).val, 1, NoMonths))

GetTransactions(txs) ==
    IF GetAll(txs).err # NoError THEN [val |-> <<>>, err |-> GetAll(txs).err]
    ELSE LET range == getDateRangeFromTransactions(GetAll(txs).val)
         IN  IF range.err # NoError THEN [val |-> <<>>, err |-> range.err]
             ELSE [val |-> [Transactions |-> GetAll(txs).val,
                            Count |-> Len(GetAll(txs).val),
                            Period |-> [Start |-> FormatDate(range.start),
                                        End |-> FormatDate(range.end)]],
                   err |-> NoError]

(***************************************************************************)
(* handlers: the transactions endpoint                                      *)
(***************************************************************************)
\* The answer written to the client: a status and a body.
respondWithError(statusCode, message) ==
    [status |-> statusCode, body |-> [kind |-> "error", message |-> message]]

\* data is the pointer handed over: nil encodes as the JSON value null.
respondWithJSON(statusCode, data) ==
    [status |-> statusCode,
     body |-> IF data.nil THEN [kind |-> "null"]
              ELSE [kind |-> "data", data |-> data.val]]

handleServiceError(err) ==
    IF err = ErrNoTransactions THEN respondWithError(200, "No transactions found")
    ELSE IF err = ErrInvalidDateRange
    THEN respondWithError(400, "Invalid date range: start date must be before end date")
    ELSE IF err = ErrInvalidDate
    THEN respondWithError(400, "Invalid date format, expected YYYY-MM-DD")
    ELSE IF err = ErrInvalidCategory THEN respondWithError(400, "Category cannot be empty")
    ELSE IF err = ErrInvalidType
    THEN respondWithError(400, "Type must be either 'income' or 'expense'")
    ELSE IF err = ErrInvalidAmount
    THEN respondWithError(400, "Amount sign must match transaction type")
    ELSE respondWithError(500, "Internal server error")

\* TransactionHandler.ServeHTTP. In the date-range branch the error of the
\* service call is assigned to the blank identifier, so the handler's err
\* is still nil at the check that follows and the pointer, nil when the
\* service failed, is encoded as it is.
ServeHTTP(txs, method, startDateStr, endDateStr) ==
    IF method # "GET" THEN respondWithError(405, "Method not allowed")
    ELSE IF startDateStr # <<>> /\ endDateStr # <<>>
    THEN IF TimeParse(startDateStr).err # NoError
         THEN respondWithError(400, "Invalid startDate format, expected YYYY-MM-DD")
         ELSE IF TimeParse(endDateStr).err # NoError
         THEN respondWithError(400, "Invalid endDate format, expected YYYY-MM-DD")
         ELSE LET r == GetTransactionsByDateRange(txs, TimeParse(startDateStr).t,
                                                  TimeParse(endDateStr).t)
              IN  respondWithJSON(200, [nil |-> r.err # NoError, val |-> r.val])
    ELSE LET r == GetTransactions(txs)
         IN  IF r.err # NoError THEN handleServiceError(r.err)
             ELSE respondWithJSON(200, [nil |-> FALSE, val |-> r.val])

(***************************************************************************)
(* service: AIService, string helpers                                       *)
(***************************************************************************)
\* The loop of splitLines from atom i on: acc = [result, current].
RECURSIVE SplitLoop(_, _, _)
SplitLoop(s, i, acc) ==
    IF i > Len(s)
    THEN (IF acc.current # <<>> THEN Append(acc.result, acc.current) ELSE acc.result)
    ELSE IF s[i] = "\n"
    THEN SplitLoop(s, i + 1, [result |-> Append(acc.result, acc.current), current |-> <<>>])
    ELSE SplitLoop(s, i + 1, [acc EXCEPT !.current = Append(acc.current, s[i])])

splitLines(s) == SplitLoop(s, 1, [result |-> <<>>, current |-> <<>>])

IsSpace(c) == c \in {" ", "\t", "\n", "\r"}

RECURSIVE TrimStart(_, _, _)
TrimStart(s, start, end) ==
    IF start < end /\ IsSpace(s[start + 1]) THEN TrimStart(s, start + 1, end) ELSE start

RECURSIVE TrimEnd(_, _, _)
TrimEnd(s, start, end) ==
    IF end > start /\ IsSpace(s[end]) THEN TrimEnd(s, start, end - 1) ELSE end

\* s[start:end] after both scans; Go indices are 0-based, SubSeq is 1-based.
trim(s) ==
    LET start == TrimStart(s, 0, Len(s))
        end == TrimEnd(s, start, Len(s))
    IN  SubSeq(s, start + 1, end)

findSubstring(s, substr) ==
    IF Len(substr) = 0 THEN 0
    ELSE LET hits == {i \in 0..(Len(s) - Len(substr)) :
                         SubSeq(s, i + 1, i + Len(substr)) = substr}
         IN  IF hits = {} THEN -1
             ELSE CHOOSE i \in hits : \A j \in hits : i <= j

contains(s, substr) == Len(s) >= Len(substr) /\ findSubstring(s, substr) >= 0

startsWith(s, prefix) == Len(s) >= Len(prefix) /\ SubSeq(s, 1, Len(prefix)) = prefix

\* trimPrefix leaving the prefix in place.
trimPrefix_Keep(s, prefix) == s

trimPrefix(s, prefix) ==
    IF startsWith(s, prefix) THEN SubSeq(s, Len(prefix) + 1, Len(s)) ELSE s

(***************************************************************************)
(* fmt.Sprintf verbs                                                        *)
(***************************************************************************)
Abs(n) == IF n < 0 THEN -n ELSE n

\* Nearest integer to num / den (den > 0, num >= 0), ties to the even one.
RoundHalfEven(num, den) ==
    LET q == num \div den
        r == num % den
    IN  IF 2 * r > den \/ (2 * r = den /\ q % 2 = 1) THEN q + 1 ELSE q

\* "%.1f" of a value held in hundredths.  (A float64 tie such as 12.35 is
\* decided by its binary expansion; the decimal tie is sent to the even digit.)
Tenths(t, negative) ==
    (IF negative THEN <<"-">> ELSE <<>>) \o <<ToString(t \div 10), ".", ToString(t % 10)>>

Fmt1(h) == Tenths(RoundHalfEven(Abs(h), 10), h < 0)

\* "%.1f" of (num / den) * 100 for num >= 0, den > 0
Fmt1Share(num, den) == Tenths(RoundHalfEven(num * 1000, den), FALSE)

\* "%.2f" of a non-negative value held in hundredths.
Fmt2(h) ==
    <<ToString(h \div 100), ".", ToString((h % 100) \div 10), ToString(h % 10)>>

\* "%d"
FmtInt(n) == <<ToString(n)>>

(***************************************************************************)
(* service: AIService, the heuristic generator                              *)
(***************************************************************************)
\* Every order in which "range" may visit the keys of a map.
Orders(keys) ==
    {o \in [1..Cardinality(keys) -> keys] : \A k \in keys : \E i \in DOMAIN o : o[i] = k}

\* The loop that looks for the largest expense, visiting the categories in
\* the given order from position i on: acc = [largestCat, largestAmt].
RECURSIVE LargestLoop(_, _, _, _)
LargestLoop(expenses, order, i, acc) ==
    IF i > Len(order) THEN acc
    ELSE IF expenses[order[i]].Total > acc.largestAmt
    THEN LargestLoop(expenses, order, i + 1,
             [largestCat |-> order[i], largestAmt |-> expenses[order[i]].Total])
    ELSE LargestLoop(expenses, order, i + 1, acc)

\* The band limits taken as belonging to the upper band.
SavingsInsight_InclusiveBands(savingsRate) ==
    IF savingsRate >= 2000
    THEN <<"Excellent savings rate of ">> \o Fmt1(savingsRate)
         \o <<"% - you're saving more than the recommended 20%">>
    ELSE IF savingsRate >= 1000
    THEN <<"Your savings rate of ">> \o Fmt1(savingsRate)
         \o <<"% is on track - aim for 20% for optimal financial health">>
    ELSE IF savingsRate >= 0
    THEN <<"Your savings rate of ">> \o Fmt1(savingsRate)
         \o <<"% has room for improvement - consider cutting discretionary spending">>
    ELSE <<"You're currently spending more than you earn - immediate action needed to avoid debt">>

SavingsInsight(savingsRate) ==
    IF savingsRate > 2000
    THEN <<"Excellent savings rate of ">> \o Fmt1(savingsRate)
         \o <<"% - you're saving more than the recommended 20%">>
    ELSE IF savingsRate > 1000
    THEN <<"Your savings rate of ">> \o Fmt1(savingsRate)
         \o <<"% is on track - aim for 20% for optimal financial health">>
    ELSE IF savingsRate > 0
    THEN <<"Your savings rate of ">> \o Fmt1(savingsRate)
         \o <<"% has room for improvement - consider cutting discretionary spending">>
    ELSE <<"You're currently spending more than you earn - immediate action needed to avoid debt">>

\* getDefaultInsights naming the category its loop visits first.
getDefaultInsights_FirstVisited(s, order) ==
    LET largest == IF Len(order) > 0
                   THEN [largestCat |-> order[1], largestAmt |-> s.Expenses[order[1]].Total]
                   ELSE [largestCat |-> "", largestAmt |-> 0]
        first == <<SavingsInsight(s.Summary.SavingsRate)>>
        second ==
            IF largest.largestCat # ""
            THEN <<(<<"Your largest expense is ", largest.largestCat, " at $">>
                    \o Fmt2(largest.largestAmt) \o <<" (">>
                    \o Fmt1Share(largest.largestAmt, s.Summary.TotalExpenses)
                    \o <<"% of spending)">>)>>
            ELSE <<>>
        third == <<(<<"Average monthly expenses: $">>
                    \o Fmt2(RoundHalfEven(s.Summary.TotalExpenses, s.Period.Months))
                    \o <<" over ">> \o FmtInt(s.Period.Months) \o <<" months">>)>>
    IN  first \o second \o third

\* order: the order in which the range over summary.Expenses visits the map
getDefaultInsights(s, order) ==
    LET largest == LargestLoop(s.Expenses, order, 1, [largestCat |-> "", largestAmt |-> 0])
        first == <<SavingsInsight(s.Summary.SavingsRate)>>
        second ==
            IF largest.largestCat # ""
            THEN <<(<<"Your largest expense is ", largest.largestCat, " at $">>
                    \o Fmt2(largest.largestAmt) \o <<" (">>
                    \o Fmt1Share(largest.largestAmt, s.Summary.TotalExpenses)
                    \o <<"% of spending)">>)>>
            ELSE <<>>
        third == <<(<<"Average monthly expenses: $">>
                    \o Fmt2(RoundHalfEven(s.Summary.TotalExpenses, s.Period.Months))
                    \o <<" over ">> \o FmtInt(s.Period.Months) \o <<" months">>)>>
    IN  first \o second \o third

discretionaryCategories == {"dining", "entertainment", "shopping", "subscriptions"}

RECURSIVE DiscretionaryLoop(_, _, _, _)
DiscretionaryLoop(expenses, order, i, discretionaryTotal) ==
    IF i > Len(order) THEN discretionaryTotal
    ELSE DiscretionaryLoop(expenses, order, i + 1,
             IF order[i] \in discretionaryCategories
             THEN discretionaryTotal + expenses[order[i]].Total
             ELSE discretionaryTotal)

\* getDefaultRecommendations with the discretionary threshold included.
getDefaultRecommendations_AtLeast(s, order) ==
    LET discretionaryTotal == DiscretionaryLoop(s.Expenses, order, 1, 0)
    IN  (IF s.Summary.SavingsRate < 2000
         THEN <<(<<"Set up automatic transfers to savings account to reach a 20% savings rate">>)>>
         ELSE <<>>)
        \o (IF discretionaryTotal * 10 >= s.Summary.TotalExpenses * 2
            THEN <<(<<"Consider reducing discretionary spending (dining, entertainment, shopping) - currently $">>
                    \o Fmt2(discretionaryTotal))>>
            ELSE <<>>)
        \o <<(<<"Track your spending weekly to identify patterns and opportunities to save">>),
             (<<"Build an emergency fund covering 3-6 months of expenses">>)>>

getDefaultRecommendations(s, order) ==
    LET discretionaryTotal == DiscretionaryLoop(s.Expenses, order, 1, 0)
    IN  (IF s.Summary.SavingsRate < 2000
         THEN <<(<<"Set up automatic transfers to savings account to reach a 20% savings rate">>)>>
         ELSE <<>>)
        \o (IF discretionaryTotal * 10 > s.Summary.TotalExpenses * 2
            THEN <<(<<"Consider reducing discretionary spending (dining, entertainment, shopping) - currently $">>
                    \o Fmt2(discretionaryTotal))>>
            ELSE <<>>)
        \o <<(<<"Track your spending weekly to identify patterns and opportunities to save">>),
             (<<"Build an emergency fund covering 3-6 months of expenses">>)>>

\* "- " + item + "\n" for every item, in order
RECURSIVE BulletLines(_)
BulletLines(items) ==
    IF items = <<>> THEN <<>>
    ELSE <<"-", " ">> \o Head(items) \o <<"\n">> \o BulletLines(Tail(items))

\* o1, o2: the map orders of the two range loops; now: time.Now()
getMockAdvice(s, o1, o2, now) ==
    LET insights == getDefaultInsights(s, o1)
        recommendations == getDefaultRecommendations(s, o2)
    IN  [Advice |-> <<"Based on your financial data analysis:", "\n", "\n">>
                    \o <<"INSIGHTS:", "\n">> \o BulletLines(insights)
                    \o <<"\n", "RECOMMENDATIONS:", "\n">> \o BulletLines(recommendations)
                    \o <<"\n", "POSITIVE:", "\n">>
                    \o <<"You're tracking your finances, which is a great first step toward financial wellness!">>,
         Insights |-> insights,
         Recommendations |-> recommendations,
         Timestamp |-> now]

(***************************************************************************)
(* service: AIService, the model call and the parser                        *)
(***************************************************************************)
\* The bullet character U+2022, one atom.
BulletGlyph == "U+2022"

\* The loop of parseAdviceResponse over the lines from i on:
\* acc = [section, insights, recommendations].
RECURSIVE ParseLoop(_, _, _)
ParseLoop(lines, i, acc) ==
    IF i > Len(lines) THEN acc
    ELSE LET trimmed == trim(lines[i])
             item == trim(trimPrefix(trimPrefix(trimmed, <<"-">>), <<BulletGlyph>>))
         IN  IF trimmed = <<>> THEN ParseLoop(lines, i + 1, acc)
             ELSE IF contains(trimmed, <<"INSIGHTS:">>)
             THEN ParseLoop(lines, i + 1, [acc EXCEPT !.section = "insights"])
             ELSE IF contains(trimmed, <<"RECOMMENDATIONS:">>)
             THEN ParseLoop(lines, i + 1, [acc EXCEPT !.section = "recommendations"])
             ELSE IF contains(trimmed, <<"POSITIVE:">>)
             THEN ParseLoop(lines, i + 1, [acc EXCEPT !.section = "positive"])
             ELSE IF startsWith(trimmed, <<"-">>) \/ startsWith(trimmed, <<BulletGlyph>>)
             THEN (IF acc.section = "insights"
                   THEN ParseLoop(lines, i + 1,
                            [acc EXCEPT !.insights = Append(acc.insights, item)])
                   ELSE IF acc.section = "recommendations"
                   THEN ParseLoop(lines, i + 1,
                            [acc EXCEPT !.recommendations = Append(acc.recommendations, item)])
                   ELSE ParseLoop(lines, i + 1, acc))
             ELSE ParseLoop(lines, i + 1, acc)

\* parseAdviceResponse without the backfill of empty sections.
parseAdviceResponse_NoBackfill(text, s, o1, o2, now) ==
    LET acc == ParseLoop(splitLines(text), 1,
                   [section |-> "", insights |-> <<>>, recommendations |-> <<>>])
    IN  [Advice |-> text,
         Insights |-> acc.insights,
         Recommendations |-> acc.recommendations,
         Timestamp |-> now]

\* o1, o2: the map orders of the backfilling generators; now: time.Now()
parseAdviceResponse(text, s, o1, o2, now) ==
    LET acc == ParseLoop(splitLines(text), 1,
                   [section |-> "", insights |-> <<>>, recommendations |-> <<>>])
    IN  [Advice |-> text,
         Insights |-> IF Len(acc.insights) = 0
                      THEN getDefaultInsights(s, o1) ELSE acc.insights,
         Recommendations |-> IF Len(acc.recommendations) = 0
                             THEN getDefaultRecommendations(s, o2) ELSE acc.recommendations,
         Timestamp |-> now]

StatusOK == 200
StatusTooManyRequests == 429
StatusUnauthorized == 401
StatusServiceUnavailable == 503
StatusInternalServerError == 500
StatusBadGateway == 502

NoHTTPError == [kind |-> "nil", StatusCode |-> 0, Message |-> ""]

\* What the transport hands back to callOpenAI:
\*   [kind |-> "doError", cancelled]    httpClient.Do failed (cancelled: because
\*                                      the caller's context was cancelled)
\*   [kind |-> "readError", cancelled]  io.ReadAll failed
\*   [kind |-> "response", status, parses, hasError, choices]
\* The result is the content and the error callOpenAI returns.
callOpenAI(r) ==
    IF r.kind = "doError"
    THEN [content |-> <<>>,
          err |-> [kind |-> "wrapped", StatusCode |-> 0, Message |-> "failed to call OpenAI API"]]
    ELSE IF r.kind = "readError"
    THEN [content |-> <<>>,
          err |-> [kind |-> "wrapped", StatusCode |-> 0, Message |-> "failed to read response"]]
    ELSE IF r.status # StatusOK
    THEN [content |-> <<>>,
          err |-> IF r.status = StatusTooManyRequests
                  THEN [kind |-> "HTTPError", StatusCode |-> StatusTooManyRequests,
                        Message |-> "OpenAI API rate limit exceeded. Please try again later."]
                  ELSE IF r.status = StatusUnauthorized
                  THEN [kind |-> "HTTPError", StatusCode |-> StatusInternalServerError,
                        Message |-> "AI service configuration error"]
                  ELSE IF r.status = StatusServiceUnavailable
                  THEN [kind |-> "HTTPError", StatusCode |-> StatusServiceUnavailable,
                        Message |-> "AI service is temporarily unavailable. Please try again later."]
                  ELSE [kind |-> "HTTPError", StatusCode |-> StatusBadGateway,
                        Message |-> "AI service error (status %d)"]]
    ELSE IF ~r.parses
    THEN [content |-> <<>>,
          err |-> [kind |-> "wrapped", StatusCode |-> 0, Message |-> "failed to parse response"]]
    ELSE IF r.hasError
    THEN [content |-> <<>>,
          err |-> [kind |-> "wrapped", StatusCode |-> 0, Message |-> "OpenAI API error"]]
    ELSE IF Len(r.choices) = 0
    THEN [content |-> <<>>,
          err |-> [kind |-> "wrapped", StatusCode |-> 0, Message |-> "no response from OpenAI"]]
    ELSE [content |-> r.choices[1], err |-> NoHTTPError]

\* GetFinancialAdvice handing an HTTPError of callOpenAI on to its caller.
AfterCall_PropagatesHTTPError(s, r, o1, o2, now) ==
    IF callOpenAI(r).err.kind = "HTTPError"
    THEN [done |-> TRUE, resp |-> [Advice |-> <<>>, Insights |-> <<>>,
                                   Recommendations |-> <<>>, Timestamp |-> now],
          err |-> callOpenAI(r).err.Message]
    ELSE IF callOpenAI(r).err # NoHTTPError
    THEN [done |-> TRUE, resp |-> getMockAdvice(s, o1, o2, now), err |-> NoError]
    ELSE [done |-> TRUE,
          resp |-> parseAdviceResponse(callOpenAI(r).content, s, o1, o2, now),
          err |-> NoError]

\* GetFinancialAdvice from the return of callOpenAI on.
AfterCall(s, r, o1, o2, now) ==
    IF callOpenAI(r).err # NoHTTPError
    THEN [done |-> TRUE, resp |-> getMockAdvice(s, o1, o2, now), err |-> NoError]
    ELSE [done |-> TRUE,
          resp |-> parseAdviceResponse(callOpenAI(r).content, s, o1, o2, now),
          err |-> NoError]

(***************************************************************************)
(* Inputs of the repository specification                                   *)
(***************************************************************************)
\* All lists of at most MaxTx records over a record domain.
Stores(dom) == UNION {[1..n -> dom] : n \in 0..MaxTx}

\* Date strings: three calendar days in two months and a day that does not
\* exist (February 30th), which time.Parse rejects.
StoreDates == {<<2024, 1, 15>>, <<2024, 1, 31>>, <<2024, 2, 1>>, <<2024, 2, 30>>}

StoreKinds ==
    {[type |-> "income", amount |-> 10000, category |-> "salary"],
     [type |-> "expense", amount |-> -5000, category |-> "rent"]}

StoreTxDomain ==
    {[date |-> d, amount |-> k.amount, category |-> k.category, type |-> k.type] :
        d \in StoreDates, k \in StoreKinds}

\* The instants a caller asks about.
QueryTimes ==
    {[year |-> 2024, month |-> 1, day |-> 1],
     [year |-> 2024, month |-> 1, day |-> 15],
     [year |-> 2024, month |-> 2, day |-> 1],
     [year |-> 2024, month |-> 2, day |-> 29]}

NoCall == [op |-> "none", start |-> ZeroTime, end |-> ZeroTime, key |-> "",
           val |-> <<>>, err |-> NoError]

NoBounds == [called |-> FALSE, start |-> ZeroTime, end |-> ZeroTime, err |-> NoError]

\* The caller holds no slice and has not called GetAll yet.
NoHeld == [seen |-> FALSE, first |-> [val |-> <<>>, err |-> NoError],
           slice |-> <<>>, shared |-> FALSE, wrote |-> FALSE]

\* The analytics calls that may be in progress at once, none begun.
Calls == {"c1", "c2"}
NoProcs == [c \in Calls |->
               [op |-> "none", pc |-> "idle", txs |-> <<>>, i |-> 0, acc |-> <<>>,
                overlapped |-> FALSE, val |-> <<>>, err |-> NoError]]

NoSummary == [Months |-> 0]
NoAdvice == [done |-> FALSE]
NoReply == [kind |-> "none", cancelled |-> FALSE, status |-> 0, parses |-> FALSE,
            hasError |-> FALSE, choices |-> <<>>]

\* The variables the advisory service owns, untouched by the store.
AdviceIdle ==
    /\ apiKey = ""
    /\ summary = NoSummary
    /\ pc = "idle"
    /\ calls = 0
    /\ reply = NoReply
    /\ advice = NoAdvice
    /\ advice2 = NoAdvice

AdviceUnchanged == UNCHANGED <<apiKey, summary, pc, calls, reply, advice, advice2>>

InitStore ==
    /\ transactions \in {NewJSONRepository(data) : data \in Stores(StoreTxDomain)}
    /\ last = NoCall
    /\ bounds = NoBounds
    /\ held = NoHeld
    /\ procs = NoProcs
    /\ AdviceIdle

\* A caller may ask about the instants of QueryTimes and about the bounds a
\* previous GetDateRange handed out.
KnownTimes == QueryTimes \cup (IF bounds.called THEN {bounds.start, bounds.end} ELSE {})

DoGetAll ==
    /\ last' = [NoCall EXCEPT !.op = "GetAll",
                              !.val = GetAll(transactions).val,
                              !.err = GetAll(transactions).err]
    /\ UNCHANGED <<transactions, bounds, held, procs>>
    /\ AdviceUnchanged

DoGetByDateRange ==
    \E start \in KnownTimes, end \in KnownTimes :
        /\ last' = [NoCall EXCEPT !.op = "GetByDateRange",
                                  !.start = start, !.end = end,
                                  !.val = GetByDateRange(transactions, start, end).val,
                                  !.err = GetByDateRange(transactions, start, end).err]
        /\ UNCHANGED <<transactions, bounds, held, procs>>
        /\ AdviceUnchanged

DoGetByType ==
    \E txType \in {"income", "expense"} :
        /\ last' = [NoCall EXCEPT !.op = "GetByType", !.key = txType,
                                  !.val = GetByType(transactions, txType).val,
                                  !.err = GetByType(transactions, txType).err]
        /\ UNCHANGED <<transactions, bounds, held, procs>>
        /\ AdviceUnchanged

DoGetByCategory ==
    \E category \in {"salary", "rent", "dining"} :
        /\ last' = [NoCall EXCEPT !.op = "GetByCategory", !.key = category,
                                  !.val = GetByCategory(transactions, category).val,
                                  !.err = GetByCategory(transactions, category).err]
        /\ UNCHANGED <<transactions, bounds, held, procs>>
        /\ AdviceUnchanged

DoGetDateRange ==
    LET r == GetDateRange(transactions)
    IN  /\ bounds' = [called |-> TRUE, start |-> r.start, end |-> r.end, err |-> r.err]
        /\ last' = [NoCall EXCEPT !.op = "GetDateRange",
                                  !.start = r.start, !.end = r.end, !.err = r.err]
        /\ UNCHANGED <<transactions, held, procs>>
        /\ AdviceUnchanged

DoGetTransactionsByDateRange ==
    \E start \in QueryTimes, end \in QueryTimes :
        /\ last' = [NoCall EXCEPT !.op = "GetTransactionsByDateRange",
                                  !.start = start, !.end = end,
                                  !.val = GetTransactionsByDateRange(transactions, start, end).val,
                                  !.err = GetTransactionsByDateRange(transactions, start, end).err]
        /\ UNCHANGED <<transactions, bounds, held, procs>>
        /\ AdviceUnchanged

\* The service's calls over the same store.
DoGetCategorySummary ==
    /\ last' = [NoCall EXCEPT !.op = "GetCategorySummary",
                              !.val = GetCategorySummary(transactions).val,
                              !.err = GetCategorySummary(transactions).err]
    /\ UNCHANGED <<transactions, bounds, held, procs>>
    /\ AdviceUnchanged

DoGetTimeline ==
    /\ last' = [NoCall EXCEPT !.op = "GetTimeline",
                              !.val = GetTimeline(transactions).val,
                              !.err = GetTimeline(transactions).err]
    /\ UNCHANGED <<transactions, bounds, held, procs>>
    /\ AdviceUnchanged

DoGetTransactions ==
    /\ last' = [NoCall EXCEPT !.op = "GetTransactions",
                              !.val = GetTransactions(transactions).val,
                              !.err = GetTransactions(transactions).err]
    /\ UNCHANGED <<transactions, bounds, held, procs>>
    /\ AdviceUnchanged

NextStore ==
    \/ DoGetAll
    \/ DoGetByDateRange
    \/ DoGetByType
    \/ DoGetByCategory
    \/ DoGetDateRange
    \/ DoGetTransactionsByDateRange
    \/ DoGetCategorySummary
    \/ DoGetTimeline
    \/ DoGetTransactions

SpecStore == InitStore /\ [][NextStore]_vars

(***************************************************************************)
(* The request specification: GET /api/transactions over a fixed store      *)
(***************************************************************************)
Methods == {"GET", "POST"}

\* The values of the startDate and endDate query parameters: absent, three
\* days, and a day that does not exist.
QueryStrings == {<<>>, <<2024, 1, 1>>, <<2024, 1, 20>>, <<2024, 3, 1>>, <<2024, 2, 30>>}

InitHandler == InitStore

DoServeHTTP ==
    \E method \in Methods, startDateStr \in QueryStrings, endDateStr \in QueryStrings :
        /\ last' = [NoCall EXCEPT !.op = "ServeHTTP", !.key = method,
                                  !.val = [startDate |-> startDateStr,
                                           endDate |-> endDateStr,
                                           answer |-> ServeHTTP(transactions, method,
                                                                startDateStr, endDateStr)]]
        /\ UNCHANGED <<transactions, bounds, held, procs>>
        /\ AdviceUnchanged

NextHandler == DoServeHTTP

SpecHandler == InitHandler /\ [][NextHandler]_vars

\* The request of the last call carried two dates that parse.
RangeRequest ==
    /\ last.op = "ServeHTTP" /\ last.key = "GET"
    /\ TimeParse(last.val.startDate).err = NoError
    /\ TimeParse(last.val.endDate).err = NoError

\* Some stored record is dated within the requested range, bounds included.
RangeHasRecord ==
    \E i \in 1..Len(transactions) :
        /\ ParseDate(transactions[i]).err = NoError
        /\ ~Before(ParseDate(transactions[i]).t, TimeParse(last.val.startDate).t)
        /\ ~After(ParseDate(transactions[i]).t, TimeParse(last.val.endDate).t)

\* C28: a transactions request with the start date after the end date is
\* answered 400 with the invalid-date-range message, one whose range holds
\* no transaction is answered with the "no transactions" response, and no
\* request is answered 200 with a body carrying no data.
C28_RangeAnswers ==
    /\ RangeRequest =>
          LET a == last.val.answer
              start == TimeParse(last.val.startDate).t
              end == TimeParse(last.val.endDate).t
          IN  /\ After(start, end) => a = handleServiceError(ErrInvalidDateRange)
              /\ (~After(start, end) /\ ~RangeHasRecord)
                     => a = handleServiceError(ErrNoTransactions)
    /\ last.op = "ServeHTTP" =>
          ~(last.val.answer.status = 200 /\ last.val.answer.body.kind = "null")

(***************************************************************************)
(* Properties of the repository                                             *)
(***************************************************************************)
\* Days since a fixed origin on a 31-day grid: an order-preserving number
\* for calendar days, used only to state properties.
DayNumber(y, m, d) == (y * 12 + m) * 31 + d
TimeNumber(t) == DayNumber(t.year, t.month, t.day)
HasDate(tx) == TimeParse(tx.date).err = NoError
DateNumber(tx) == DayNumber(tx.date[1], tx.date[2], tx.date[3])

\* C8: for a non-empty store, GetByDateRange called with the pair GetDateRange
\* returned succeeds and returns as many transactions as GetAll.
C8_BoundsRangeCountsAll ==
    (/\ last.op = "GetByDateRange"
     /\ Len(transactions) > 0
     /\ bounds.called /\ bounds.err = NoError
     /\ last.start = bounds.start /\ last.end = bounds.end)
    => (/\ last.err = NoError
        /\ Len(last.val) = Len(GetAll(transactions).val))

\* The stored transactions dated within the range last asked for, in store
\* order.
C9_Expected ==
    SelectSeq(transactions,
              LAMBDA tx : /\ HasDate(tx)
                          /\ TimeNumber(last.start) <= DateNumber(tx)
                          /\ DateNumber(tx) <= TimeNumber(last.end))

\* C9: for start <= end, GetByDateRange returns exactly the stored
\* transactions dated within [start, end], bounds included, in store order,
\* and fails with NoTransactions exactly when there is none.
C9_InclusiveRange ==
    (last.op = "GetByDateRange" /\ TimeNumber(last.start) <= TimeNumber(last.end))
    => /\ last.val = C9_Expected
       /\ (last.err = ErrNoTransactions) = (C9_Expected = <<>>)
       /\ last.err \in {NoError, ErrNoTransactions}

\* A range whose end is the date of a returned transaction, whose start is
\* the date of a returned transaction, and which leaves a stored one out.
C9_Witness ==
    /\ last.op = "GetByDateRange"
    /\ last.err = NoError
    /\ Len(last.val) < Len(transactions)
    /\ \E i \in 1..Len(last.val) : last.val[i].date = FormatDate(last.end)
    /\ \E i \in 1..Len(last.val) : last.val[i].date = FormatDate(last.start)

\* C10: with start strictly after end GetByDateRange fails with
\* InvalidDateRange whatever the store holds, and
\* GetTransactionsByDateRange hands that error on unchanged.
C10_ReversedRangeRejected ==
    (/\ last.op \in {"GetByDateRange", "GetTransactionsByDateRange"}
     /\ TimeNumber(last.start) > TimeNumber(last.end))
    => (last.err = ErrInvalidDateRange /\ last.val = <<>>)

\* The service was asked for a reversed range over a store with nothing
\* between the two dates.
C10_Witness ==
    /\ last.op = "GetTransactionsByDateRange"
    /\ TimeNumber(last.start) > TimeNumber(last.end)
    /\ \A i \in 1..Len(transactions) :
          ~(HasDate(transactions[i])
            /\ TimeNumber(last.end) <= DateNumber(transactions[i])
            /\ DateNumber(transactions[i]) <= TimeNumber(last.start))
    /\ last.err = ErrInvalidDateRange

\* C11: on an empty store GetAll, GetDateRange, GetCategorySummary,
\* GetTimeline and GetTransactions each fail with NoTransactions and return
\* no result.
C11_EmptyStoreFails ==
    (/\ Len(transactions) = 0
     /\ last.op \in {"GetAll", "GetDateRange", "GetCategorySummary",
                     "GetTimeline", "GetTransactions"})
    => /\ last.err = ErrNoTransactions
       /\ last.val = <<>>
       /\ last.start = ZeroTime /\ last.end = ZeroTime

\* The timeline was asked of an empty store and refused.
C11_Witness ==
    /\ Len(transactions) = 0
    /\ last.op = "GetTimeline"
    /\ last.err = ErrNoTransactions

(***************************************************************************)
(* The caller specification: a caller of the repository that keeps the     *)
(* slice it was handed and writes to it                                     *)
(***************************************************************************)
FrameDates == {<<2024, 1, 15>>, <<2024, 2, 1>>}

FrameTxDomain ==
    {[date |-> d, amount |-> k.amount, category |-> k.category, type |-> k.type] :
        d \in FrameDates, k \in StoreKinds}

\* The amount the caller writes into an element of a slice it holds.
WrittenAmount == 9999000

InitFrame ==
    /\ transactions \in {NewJSONRepository(data) : data \in Stores(FrameTxDomain)}
    /\ last = NoCall
    /\ bounds = NoBounds
    /\ held = NoHeld
    /\ procs = NoProcs
    /\ AdviceIdle

\* A repository call returned r to the caller, who now holds r.val.
Returned(op, r, shared) ==
    /\ last' = [NoCall EXCEPT !.op = op, !.val = r.val, !.err = r.err]
    /\ held' = [held EXCEPT !.slice = r.val, !.shared = shared,
                            !.seen = @ \/ op = "GetAll",
                            !.first = IF op = "GetAll" /\ ~held.seen
                                      THEN [val |-> r.val, err |-> r.err]
                                      ELSE @]
    /\ UNCHANGED <<transactions, bounds, procs>>
    /\ AdviceUnchanged

FrameGetAll == Returned("GetAll", GetAll(transactions), GetAll(transactions).shared)

\* The filters append to a nil slice: the result never shares the store's
\* backing array.
FrameGetByDateRange ==
    \E start \in QueryTimes, end \in QueryTimes :
        Returned("GetByDateRange", GetByDateRange(transactions, start, end), FALSE)

FrameGetByType ==
    \E txType \in {"income", "expense"} :
        Returned("GetByType", GetByType(transactions, txType), FALSE)

FrameGetByCategory ==
    \E category \in {"salary", "rent"} :
        Returned("GetByCategory", GetByCategory(transactions, category), FALSE)

\* GetDateRange hands out two time values and no slice.
FrameGetDateRange ==
    LET r == GetDateRange(transactions)
    IN  /\ bounds' = [called |-> TRUE, start |-> r.start, end |-> r.end, err |-> r.err]
        /\ last' = [NoCall EXCEPT !.op = "GetDateRange",
                                  !.start = r.start, !.end = r.end, !.err = r.err]
        /\ UNCHANGED <<transactions, held, procs>>
        /\ AdviceUnchanged

\* The caller assigns to the Amount of an element of the slice it holds; the
\* write lands in the store when the slice has the store's backing array.
CallerWrites ==
    \E i \in 1..Len(held.slice) :
        /\ held' = [held EXCEPT !.slice[i].amount = WrittenAmount, !.wrote = TRUE]
        /\ transactions' = IF held.shared
                           THEN [transactions EXCEPT ![i].amount = WrittenAmount]
                           ELSE transactions
        /\ UNCHANGED <<last, bounds, procs>>
        /\ AdviceUnchanged

NextFrame ==
    \/ FrameGetAll
    \/ FrameGetByDateRange
    \/ FrameGetByType
    \/ FrameGetByCategory
    \/ FrameGetDateRange
    \/ CallerWrites

SpecFrame == InitFrame /\ [][NextFrame]_vars

\* C12: the store is never changed after construction: after any sequence of
\* GetAll, GetByDateRange, GetByType, GetByCategory and GetDateRange calls and
\* any write of the caller to the slices they returned, the store still
\* yields, and a later GetAll returns, the same transactions in the same
\* order as the first GetAll.
C12_StoreNeverChanges ==
    held.seen =>
        /\ GetAll(transactions).val = held.first.val
        /\ GetAll(transactions).err = held.first.err
        /\ (last.op = "GetAll" =>
               last.val = held.first.val /\ last.err = held.first.err)

\* A GetAll that came after the caller wrote to a slice it was handed: the
\* slice it holds now is fresh and equal to what the first GetAll returned.
C12_Witness ==
    /\ held.seen /\ held.wrote
    /\ last.op = "GetAll"
    /\ Len(last.val) > 0
    /\ held.slice = last.val
    /\ last.val = held.first.val

(***************************************************************************)
(* The analytics specification                                              *)
(***************************************************************************)
\* Two days of one month, a day of the month before across a year boundary,
\* and a date that does not parse.
AnalyticsDates == {<<2023, 12, 31>>, <<2024, 1, 15>>, <<2024, 1, 16>>, <<2024, 2, 30>>}

\* Well-formed records (two of them with an amount of three decimals),
\* records whose sign contradicts their type, zero amounts and a type that
\* is neither income nor expense: the constructor keeps them all.
AnalyticsKinds ==
    {[type |-> "income", amount |-> 10000, category |-> "salary"],
     [type |-> "income", amount |-> 3336, category |-> "bonus"],
     [type |-> "income", amount |-> -5000, category |-> "bonus"],
     [type |-> "income", amount |-> 0, category |-> "gift"],
     [type |-> "expense", amount |-> -5000, category |-> "rent"],
     [type |-> "expense", amount |-> -2502, category |-> "dining"],
     [type |-> "expense", amount |-> -12000, category |-> "rent"],
     [type |-> "expense", amount |-> 0, category |-> "misc"],
     [type |-> "transfer", amount |-> 700, category |-> "misc"]}

AnalyticsTxDomain ==
    {[date |-> d, amount |-> k.amount, category |-> k.category, type |-> k.type] :
        d \in AnalyticsDates, k \in AnalyticsKinds}

InitAnalytics ==
    /\ transactions \in {NewJSONRepository(data) : data \in Stores(AnalyticsTxDomain)}
    /\ last = NoCall
    /\ bounds = NoBounds
    /\ held = NoHeld
    /\ procs = NoProcs
    /\ AdviceIdle

NextAnalytics ==
    \/ DoGetCategorySummary
    \/ DoGetTimeline
    \/ DoGetTransactions

SpecAnalytics == InitAnalytics /\ [][NextAnalytics]_vars

(***************************************************************************)
(* Properties of the analytics engine                                       *)
(***************************************************************************)
RECURSIVE SumPercentage(_)
SumPercentage(details) ==
    IF DOMAIN details = {} THEN 0
    ELSE LET c == CHOOSE x \in DOMAIN details : TRUE
         IN  details[c].Percentage
             + SumPercentage([x \in DOMAIN details \ {c} |-> details[x]])

\* Within 0.1 of 100 %, in hundredths of a percent.
NearHundred(x) == 10000 - 10 <= x /\ x <= 10000 + 10

\* C7: in every summary of a non-empty store, the percentages of the
\* categories of a type whose total is positive add up to 100 within 0.1.
C7_PercentagesSumTo100 ==
    (last.op = "GetCategorySummary" /\ last.err = NoError)
    => /\ (last.val.Summary.TotalIncome > 0
              => NearHundred(SumPercentage(last.val.Income)))
       /\ (last.val.Summary.TotalExpenses > 0
              => NearHundred(SumPercentage(last.val.Expenses)))

\* C14: in every summary returned, totalIncome and totalExpenses are both
\* non-negative.
C14_TotalsNonNegative ==
    (last.op = "GetCategorySummary" /\ last.err = NoError)
    => /\ last.val.Summary.TotalIncome >= 0
       /\ last.val.Summary.TotalExpenses >= 0

\* Every percentage of a breakdown lies in [0, 100] and is 0 when the total
\* of the type is 0.
PercentagesInRange(details, total) ==
    \A c \in DOMAIN details :
        /\ 0 <= details[c].Percentage
        /\ details[c].Percentage <= 10000
        /\ (total = 0 => details[c].Percentage = 0)

\* C15: in every summary returned, every category's percentage lies between
\* 0 and 100 inclusive and is 0 whenever the total of its type is 0.
C15_PercentageBounds ==
    (last.op = "GetCategorySummary" /\ last.err = NoError)
    => /\ PercentagesInRange(last.val.Income, last.val.Summary.TotalIncome)
       /\ PercentagesInRange(last.val.Expenses, last.val.Summary.TotalExpenses)

\* num / den * 100 rounded to two decimals, in hundredths of a percent, for
\* den of either sign.
RatePercent(num, den) ==
    IF den > 0 THEN RoundDiv(num * 10000, den) ELSE RoundDiv((-num) * 10000, -den)

\* C16: the savings rate of a summary is 0 when totalIncome is 0, and
\* netSavings / totalIncome * 100 rounded to two decimals otherwise.
C16_SavingsRate ==
    (last.op = "GetCategorySummary" /\ last.err = NoError)
    => LET fs == last.val.Summary
       IN  IF fs.TotalIncome = 0 THEN fs.SavingsRate = 0
           ELSE fs.SavingsRate = RatePercent(fs.NetSavings, fs.TotalIncome)

\* C17: the reported netSavings is the reported totalIncome minus the
\* reported totalExpenses, and the net of every timeline point is its
\* reported income minus its reported expenses.
C17_NetIdentities ==
    /\ (last.op = "GetCategorySummary" /\ last.err = NoError)
       => last.val.Summary.NetSavings
              = last.val.Summary.TotalIncome - last.val.Summary.TotalExpenses
    /\ (last.op = "GetTimeline" /\ last.err = NoError)
       => \A i \in 1..Len(last.val.Timeline) :
              last.val.Timeline[i].Net
                  = last.val.Timeline[i].Income - last.val.Timeline[i].Expenses

\* The records of the store whose date parses.
Dated == {i \in 1..Len(transactions) : HasDate(transactions[i])}

\* C18: for every successful GetCategorySummary, period.start and period.end
\* are the least and the greatest parseable date over the whole store,
\* whatever the type of the record, and period.months is
\* (endYear - startYear) * 12 + (endMonth - startMonth) + 1, at least 1.
C18_Period ==
    (last.op = "GetCategorySummary" /\ last.err = NoError)
    => LET p == last.val.Period
       IN  /\ \E i \in Dated : transactions[i].date = p.Start
           /\ \E i \in Dated : transactions[i].date = p.End
           /\ \A i \in Dated :
                 /\ DayNumber(p.Start[1], p.Start[2], p.Start[3])
                        <= DateNumber(transactions[i])
                 /\ DateNumber(transactions[i])
                        <= DayNumber(p.End[1], p.End[2], p.End[3])
           /\ p.Months = (p.End[1] - p.Start[1]) * 12 + (p.End[2] - p.Start[2]) + 1
           /\ p.Months >= 1
           /\ (Cardinality(Dated) = 1 => p.Months = 1)

\* A summary whose period starts with an expense in December and ends with
\* an income in January of the next year: two months.
C18_Witness ==
    /\ last.op = "GetCategorySummary" /\ last.err = NoError
    /\ last.val.Period.Start = <<2023, 12, 31>>
    /\ last.val.Period.End = <<2024, 1, 16>>
    /\ last.val.Period.Months = 2
    /\ \E i, j \in Dated :
          /\ transactions[i].date = <<2023, 12, 31>> /\ transactions[i].type = "expense"
          /\ transactions[j].date = <<2024, 1, 16>> /\ transactions[j].type = "income"

\* The year-months of the records whose date parses.
YearMonths == {<<transactions[i].date[1], transactions[i].date[2]>> : i \in Dated}

\* C19: GetTimeline returns its points in strictly ascending order of the
\* year-month key, exactly one point per distinct year-month of the store.
C19_TimelineAscending ==
    (last.op = "GetTimeline" /\ last.err = NoError)
    => LET tl == last.val.Timeline
       IN  /\ \A i, j \in 1..Len(tl) :
                 i < j => tl[i].Period[1] * 12 + tl[i].Period[2]
                              < tl[j].Period[1] * 12 + tl[j].Period[2]
           /\ {tl[i].Period : i \in 1..Len(tl)} = YearMonths
           /\ Len(tl) = Cardinality(YearMonths)

\* A timeline of two months out of a store that lists the later month
\* first.
C19_Witness ==
    /\ last.op = "GetTimeline" /\ last.err = NoError
    /\ Len(last.val.Timeline) = 2
    /\ Len(transactions) >= 2
    /\ transactions[1].date = <<2024, 1, 15>>
    /\ transactions[2].date = <<2023, 12, 31>>

\* C20: every point GetTimeline returns has non-negative income and
\* non-negative expenses.
C20_PointsNonNegative ==
    (last.op = "GetTimeline" /\ last.err = NoError)
    => \A i \in 1..Len(last.val.Timeline) :
          /\ last.val.Timeline[i].Income >= 0
          /\ last.val.Timeline[i].Expenses >= 0

(***************************************************************************)
(* The fixture specification: the analytics calls over the test data of    *)
(* the service and over every list made of some of its records             *)
(***************************************************************************)
testTransactions ==
    <<[date |-> <<2024, 1, 1>>, amount |-> 2800000, category |-> "salary", type |-> "income"],
      [date |-> <<2024, 1, 2>>, amount |-> -1200000, category |-> "rent", type |-> "expense"],
      [date |-> <<2024, 1, 3>>, amount |-> -85000, category |-> "groceries", type |-> "expense"],
      [date |-> <<2024, 1, 5>>, amount |-> -45000, category |-> "utilities", type |-> "expense"],
      [date |-> <<2024, 1, 16>>, amount |-> 2800000, category |-> "salary", type |-> "income"],
      [date |-> <<2024, 2, 1>>, amount |-> 2800000, category |-> "salary", type |-> "income"],
      [date |-> <<2024, 2, 2>>, amount |-> -1200000, category |-> "rent", type |-> "expense"],
      [date |-> <<2024, 2, 4>>, amount |-> -110000, category |-> "groceries", type |-> "expense"]>>

\* The records of s at the positions of keep, in the order of s.
RECURSIVE Keep(_, _, _)
Keep(s, keep, i) ==
    IF i > Len(s) THEN <<>>
    ELSE (IF i \in keep THEN <<s[i]>> ELSE <<>>) \o Keep(s, keep, i + 1)

InitFixture ==
    /\ transactions \in {NewJSONRepository(Keep(testTransactions, keep, 1)) :
                            keep \in SUBSET (1..Len(testTransactions))}
    /\ last = NoCall
    /\ bounds = NoBounds
    /\ held = NoHeld
    /\ procs = NoProcs
    /\ AdviceIdle

SpecFixture == InitFixture /\ [][NextAnalytics]_vars

\* C21: on the fixture of eight transactions GetCategorySummary returns
\* totalIncome 8400, totalExpenses 2640, netSavings 5760, savingsRate 68.57
\* and period.months 2, and GetTimeline returns exactly two points in order,
\* 2024-01 {income 5600, expenses 1330, net 4270} and
\* 2024-02 {income 2800, expenses 1310, net 1490}.
C21_FixtureValues ==
    transactions = testTransactions =>
        /\ (last.op = "GetCategorySummary" =>
               /\ last.err = NoError
               /\ last.val.Summary = [TotalIncome |-> 840000, TotalExpenses |-> 264000,
                                      NetSavings |-> 576000, SavingsRate |-> 6857]
               /\ last.val.Period.Months = 2)
        /\ (last.op = "GetTimeline" =>
               /\ last.err = NoError
               /\ last.val.Timeline =
                     <<[Period |-> <<2024, 1>>, Income |-> 560000,
                        Expenses |-> 133000, Net |-> 427000],
                       [Period |-> <<2024, 2>>, Income |-> 280000,
                        Expenses |-> 131000, Net |-> 149000]>>)

\* The summary of the fixture was computed.
C21_Witness ==
    /\ transactions = testTransactions
    /\ last.op = "GetCategorySummary"
    /\ last.err = NoError
    /\ last.val.Summary.SavingsRate = 6857

\* The sum over the records of txs of the given type dated in year-month
\* ym: of the amounts for income, of the absolute amounts for expenses.
RECURSIVE MonthSum(_, _, _)
MonthSum(txs, ym, type) ==
    IF txs = <<>> THEN 0
    ELSE LET tx == Head(txs)
             counts == /\ HasDate(tx)
                       /\ <<tx.date[1], tx.date[2]>> = ym
                       /\ tx.type = type
             term == IF ~counts THEN 0
                     ELSE IF type = "income" THEN tx.amount
                     ELSE IF tx.amount < 0 THEN -tx.amount ELSE tx.amount
         IN  term + MonthSum(Tail(txs), ym, type)

\* C27: GetTimeline never fails on a non-empty store: a transaction whose
\* date does not parse contributes to no point, and the point of a
\* year-month has as income the sum of the amounts of the month's income
\* transactions and as expenses the sum of the absolute amounts of the
\* month's expense transactions.
C27_TimelineSums ==
    (last.op = "GetTimeline" /\ Len(transactions) > 0)
    => /\ last.err = NoError
       /\ {last.val.Timeline[i].Period : i \in 1..Len(last.val.Timeline)} = YearMonths
       /\ \A i \in 1..Len(last.val.Timeline) :
             LET p == last.val.Timeline[i]
             IN  /\ FromCents(p.Income) = MonthSum(transactions, p.Period, "income")
                 /\ FromCents(p.Expenses) = MonthSum(transactions, p.Period, "expense")

\* cents is units (tenths of a cent) rounded to the nearest cent.
NearestCent(cents, units) ==
    /\ 2 * (FromCents(cents) - units) <= 10
    /\ 2 * (units - FromCents(cents)) <= 10

\* C27 as amended: the income and the expenses of a point are those sums
\* rounded to two decimals.
C27_TimelineSumsAmended ==
    (last.op = "GetTimeline" /\ Len(transactions) > 0)
    => /\ last.err = NoError
       /\ {last.val.Timeline[i].Period : i \in 1..Len(last.val.Timeline)} = YearMonths
       /\ \A i \in 1..Len(last.val.Timeline) :
             LET p == last.val.Timeline[i]
             IN  /\ NearestCent(p.Income, MonthSum(transactions, p.Period, "income"))
                 /\ NearestCent(p.Expenses, MonthSum(transactions, p.Period, "expense"))

\* A store of an expense with three decimals and a record whose date does
\* not parse: one point, the expense rounded to the cent.
C27_Witness ==
    /\ last.op = "GetTimeline" /\ last.err = NoError
    /\ Len(transactions) = 2
    /\ transactions[1].date = <<2024, 1, 15>> /\ transactions[1].amount = -2502
    /\ ~HasDate(transactions[2])
    /\ Len(last.val.Timeline) = 1
    /\ last.val.Timeline[1].Expenses = 250

\* The sum of the incomes, or of the expenses, of the points of a timeline.
RECURSIVE PointSum(_, _)
PointSum(points, field) ==
    IF points = <<>> THEN 0
    ELSE (IF field = "Income" THEN Head(points).Income ELSE Head(points).Expenses)
         + PointSum(Tail(points), field)

\* The sum of the totals, or of the counts, of the categories S of a
\* breakdown.
RECURSIVE CategorySum(_, _, _)
CategorySum(cats, S, field) ==
    IF S = {} THEN 0
    ELSE LET c == CHOOSE x \in S : TRUE
         IN  (IF field = "Total" THEN cats[c].Total ELSE cats[c].Count)
             + CategorySum(cats, S \ {c}, field)

\* The number of stored records of a type.
TypeCount(type) == Cardinality({i \in 1..Len(transactions) : transactions[i].type = type})

\* C29: on a store whose dates all parse the timeline and the category
\* summary agree: the incomes of the points add up to totalIncome and the
\* expenses to totalExpenses, and for each type the category totals add up
\* to the type's total and the category counts to the number of stored
\* records of the type.
C29_ViewsAgree ==
    (/\ last.op = "GetCategorySummary" /\ last.err = NoError
     /\ Dated = 1..Len(transactions))
    => LET s == last.val
           points == GetTimeline(transactions).val.Timeline
       IN  /\ PointSum(points, "Income") = s.Summary.TotalIncome
           /\ PointSum(points, "Expenses") = s.Summary.TotalExpenses
           /\ CategorySum(s.Income, DOMAIN s.Income, "Total") = s.Summary.TotalIncome
           /\ CategorySum(s.Expenses, DOMAIN s.Expenses, "Total") = s.Summary.TotalExpenses
           /\ CategorySum(s.Income, DOMAIN s.Income, "Count") = TypeCount("income")
           /\ CategorySum(s.Expenses, DOMAIN s.Expenses, "Count") = TypeCount("expense")

\* C30: on a non-empty store none of whose dates parses GetCategorySummary
\* and GetTransactions fail with ErrNoTransactions while GetTimeline succeeds
\* with an empty timeline; on a store with a date that parses the three
\* calls succeed.
C30_UndatedStore ==
    /\ (Len(transactions) > 0 /\ Dated = {})
       => /\ last.op \in {"GetCategorySummary", "GetTransactions"}
                => last.err = ErrNoTransactions
          /\ last.op = "GetTimeline"
                => last.err = NoError /\ last.val.Timeline = <<>>
    /\ (Dated # {} /\ last.op \in {"GetCategorySummary", "GetTransactions", "GetTimeline"})
       => last.err = NoError

\* Two records dated 30 February, and GetTransactions failed.
C30_Witness ==
    /\ Len(transactions) = 2 /\ Dated = {}
    /\ last.op = "GetTransactions"
    /\ last.err = ErrNoTransactions

(***************************************************************************)
(* The validation specification: Validate on one decoded record             *)
(***************************************************************************)
\* A calendar day, the empty string, a day that does not exist, a string
\* with a field missing.
ValidateDates == {<<2024, 1, 15>>, <<>>, <<2024, 2, 30>>, <<2024, 1>>}

ValidateTxDomain ==
    [date : ValidateDates,
     amount : {-5000, 0, 5000},
     category : {"", "rent"},
     type : {"income", "expense", "transfer", ""}]

InitValidate ==
    /\ transactions \in {<<tx>> : tx \in ValidateTxDomain}
    /\ last = NoCall
    /\ bounds = NoBounds
    /\ held = NoHeld
    /\ procs = NoProcs
    /\ AdviceIdle

\* tx.Validate() on the record, as the loop of the constructor calls it.
DoValidate ==
    /\ last' = [NoCall EXCEPT !.op = "Validate", !.err = Validate(transactions[1])]
    /\ UNCHANGED <<transactions, bounds, held, procs>>
    /\ AdviceUnchanged

NextValidate == DoValidate

SpecValidate == InitValidate /\ [][NextValidate]_vars

\* C23: Validate returns no error exactly when the date parses, the category
\* is not empty, the type is income or expense and the sign of the amount
\* matches the type; otherwise the error of the first failing check in the
\* order date, category, type, amount sign.
C23_ValidateOrder ==
    last.op = "Validate" =>
        LET tx == transactions[1]
            dateOk == HasDate(tx)
            categoryOk == tx.category # ""
            typeOk == tx.type \in {"income", "expense"}
            signOk == /\ (tx.type = "income" => tx.amount >= 0)
                      /\ (tx.type = "expense" => tx.amount <= 0)
        IN  /\ (last.err = NoError) = (dateOk /\ categoryOk /\ typeOk /\ signOk)
            /\ (~dateOk => last.err = ErrInvalidDate)
            /\ (dateOk /\ ~categoryOk => last.err = ErrInvalidCategory)
            /\ (dateOk /\ categoryOk /\ ~typeOk => last.err = ErrInvalidType)
            /\ (dateOk /\ categoryOk /\ typeOk /\ ~signOk => last.err = ErrInvalidAmount)

\* A record failing the category, the type and nothing before them: the
\* category is what Validate reports.
C23_Witness ==
    /\ last.op = "Validate"
    /\ HasDate(transactions[1])
    /\ transactions[1].category = ""
    /\ transactions[1].type = "transfer"
    /\ last.err = ErrInvalidCategory

(***************************************************************************)
(* The concurrent specification: two analytics calls on one store, each    *)
(* stepping through its own loop                                            *)
(***************************************************************************)
ConcurrentDates == {<<2024, 1, 15>>, <<2024, 2, 1>>, <<2024, 2, 30>>}

ConcurrentTxDomain ==
    {[date |-> d, amount |-> k.amount, category |-> k.category, type |-> k.type] :
        d \in ConcurrentDates, k \in StoreKinds}

InitConcurrent ==
    /\ transactions \in {NewJSONRepository(data) : data \in Stores(ConcurrentTxDomain)}
    /\ last = NoCall
    /\ bounds = NoBounds
    /\ held = NoHeld
    /\ procs = NoProcs
    /\ AdviceIdle

ConcurrentUnchanged ==
    /\ UNCHANGED <<transactions, last, bounds, held>>
    /\ AdviceUnchanged

\* Call c enters op: s.repo.GetAll() and the initialisation of the locals.
Begin(c, op) ==
    LET r == GetAll(transactions)
        busy == \E d \in Calls \ {c} : procs[d].pc = "loop"
    IN  /\ procs[c].pc = "idle"
        /\ procs' = [procs EXCEPT ![c] =
               IF r.err # NoError
               THEN [@ EXCEPT !.op = op, !.pc = "done", !.overlapped = busy,
                              !.err = r.err]
               ELSE [@ EXCEPT !.op = op, !.pc = "loop", !.overlapped = busy,
                              !.txs = r.val, !.i = 1,
                              !.acc = IF op = "GetCategorySummary"
                                      THEN NoTotals ELSE NoMonths]]
        /\ ConcurrentUnchanged

\* The locals of the calls after call c ran its loop body on a record that
\* every call with the same receiver accumulates into.
Iterated_SharedAccumulator(ps, c) ==
    LET tx == ps[c].txs[ps[c].i]
        acc == IF ps[c].op = "GetCategorySummary"
               THEN AggregateLoop(<<tx>>, 1, ps[c].acc)
               ELSE MonthlyLoop(<<tx>>, 1, ps[c].acc)
    IN  [d \in Calls |->
            IF d = c THEN [ps[d] EXCEPT !.acc = acc, !.i = @ + 1]
            ELSE IF ps[d].pc = "loop" /\ ps[d].op = ps[c].op
            THEN [ps[d] EXCEPT !.acc = acc]
            ELSE ps[d]]

\* The locals of the calls after call c ran its loop body on its next
\* record: totals and maps are variables of the call.
Iterated(ps, c) ==
    LET tx == ps[c].txs[ps[c].i]
    IN  [ps EXCEPT ![c].acc = IF ps[c].op = "GetCategorySummary"
                              THEN AggregateLoop(<<tx>>, 1, ps[c].acc)
                              ELSE MonthlyLoop(<<tx>>, 1, ps[c].acc),
                   ![c].i = @ + 1]

Iterate(c) ==
    /\ procs[c].pc = "loop"
    /\ procs[c].i <= Len(procs[c].txs)
    /\ procs' = Iterated(procs, c)
    /\ ConcurrentUnchanged

\* Call c leaves its loop and returns.
Finish(c) ==
    LET r == IF procs[c].op = "GetCategorySummary"
             THEN SummaryResult(procs[c].acc, procs[c].txs)
             ELSE TimelineResult(procs[c].acc)
    IN  /\ procs[c].pc = "loop"
        /\ procs[c].i > Len(procs[c].txs)
        /\ procs' = [procs EXCEPT ![c].pc = "done", ![c].val = r.val, ![c].err = r.err]
        /\ ConcurrentUnchanged

NextConcurrent ==
    \E c \in Calls :
        \/ Begin(c, "GetCategorySummary")
        \/ Begin(c, "GetTimeline")
        \/ Iterate(c)
        \/ Finish(c)

SpecConcurrent == InitConcurrent /\ [][NextConcurrent]_vars

\* What op returns on a store when nothing else runs.
Alone(op, txs) ==
    IF op = "GetCategorySummary" THEN GetCategorySummary(txs) ELSE GetTimeline(txs)

\* C13: concurrent GetCategorySummary and GetTimeline calls on one store are
\* independent: no step changes the store or the locals of another call,
\* and under every interleaving a call returns what it returns when run
\* alone.
C13_CallsIndependent ==
    [][/\ transactions' = transactions
       /\ \A c \in Calls :
             procs'[c] # procs[c] => \A d \in Calls \ {c} : procs'[d] = procs[d]
       /\ \A c \in Calls :
             procs'[c].pc = "done" =>
                 /\ procs'[c].val = Alone(procs'[c].op, transactions').val
                 /\ procs'[c].err = Alone(procs'[c].op, transactions').err]_vars

\* Both calls returned a result, c2 having begun while c1 was in its loop,
\* one a summary and the other a timeline of two months.
C13_Witness ==
    /\ procs["c1"].pc = "done" /\ procs["c2"].pc = "done"
    /\ procs["c2"].overlapped
    /\ procs["c1"].op = "GetCategorySummary" /\ procs["c2"].op = "GetTimeline"
    /\ procs["c1"].err = NoError /\ procs["c2"].err = NoError
    /\ Len(procs["c2"].val.Timeline) = 2

(***************************************************************************)
(* The advisory specification: one invocation of GetFinancialAdvice and     *)
(* every way its outbound call can end                                      *)
(***************************************************************************)
\* time.Now() at the two instants a response may be stamped
Clock == {"t1", "t2"}

AdviceDay == <<2024, 1, 15>>

\* The stores whose summaries the advice handler passes on: income with two
\* distinct expenses, income with two equal expenses, income alone.
AdviceStores ==
    {<<[date |-> AdviceDay, amount |-> 10000, category |-> "salary", type |-> "income"],
       [date |-> AdviceDay, amount |-> -5000, category |-> "rent", type |-> "expense"],
       [date |-> AdviceDay, amount |-> -2500, category |-> "dining", type |-> "expense"]>>,
     <<[date |-> AdviceDay, amount |-> 10000, category |-> "salary", type |-> "income"],
       [date |-> AdviceDay, amount |-> -5000, category |-> "rent", type |-> "expense"],
       [date |-> AdviceDay, amount |-> -5000, category |-> "dining", type |-> "expense"]>>,
     <<[date |-> AdviceDay, amount |-> 10000, category |-> "salary", type |-> "income"]>>}

\* The lines a model response is made of.
ModelLines ==
    {<<"INSIGHTS:">>, <<"RECOMMENDATIONS:">>, <<"POSITIVE:">>,
     <<"-", " ", "a">>, <<BulletGlyph, "b", " ">>, <<"c">>}

RECURSIVE JoinLines(_)
JoinLines(ls) ==
    IF ls = <<>> THEN <<>>
    ELSE IF Len(ls) = 1 THEN ls[1]
    ELSE ls[1] \o <<"\n">> \o JoinLines(Tail(ls))

ModelTexts == {JoinLines(ls) : ls \in UNION {[1..n -> ModelLines] : n \in 0..MaxLines}}

InitAdvice ==
    /\ transactions \in {NewJSONRepository(data) : data \in AdviceStores}
    /\ last = NoCall
    /\ bounds = NoBounds
    /\ held = NoHeld
    /\ procs = NoProcs
    /\ apiKey \in {"", "sk-key"}
    /\ summary = GetCategorySummary(transactions).val
    /\ pc = "idle"
    /\ calls = 0
    /\ reply = NoReply
    /\ advice = NoAdvice
    /\ advice2 = NoAdvice

\* GetFinancialAdvice without a credential: the heuristic, no network.
InvokeNoKey ==
    /\ pc = "idle"
    /\ apiKey = ""
    /\ \E o1 \in Orders(DOMAIN summary.Expenses), o2 \in Orders(DOMAIN summary.Expenses),
          now \in Clock :
          advice' = [done |-> TRUE, resp |-> getMockAdvice(summary, o1, o2, now),
                     err |-> NoError]
    /\ pc' = "done"
    /\ UNCHANGED <<transactions, last, bounds, held, procs, apiKey, summary, calls, reply, advice2>>

\* GetFinancialAdvice with a credential, up to httpClient.Do: buildPrompt
\* and the request are pure, the prompt leaves with the call and nothing
\* the service does afterwards reads it.
InvokeWithKey ==
    /\ pc = "idle"
    /\ apiKey # ""
    /\ calls' = calls + 1
    /\ pc' = "inflight"
    /\ UNCHANGED <<transactions, last, bounds, held, procs, apiKey, summary, reply, advice, advice2>>

\* The rest of GetFinancialAdvice once the transport has handed back r.
Complete(r) ==
    /\ pc = "inflight"
    /\ reply' = r
    /\ \E o1 \in Orders(DOMAIN summary.Expenses), o2 \in Orders(DOMAIN summary.Expenses),
          now \in Clock :
          advice' = AfterCall(summary, r, o1, o2, now)
    /\ pc' = "done"

\* The caller cancels (or its deadline passes) while the call is in flight:
\* Do, or the read of the body, fails with the context's error.
Cancel ==
    /\ \E k \in {"doError", "readError"} :
          Complete([NoReply EXCEPT !.kind = k, !.cancelled = TRUE])
    /\ UNCHANGED <<transactions, last, bounds, held, procs, apiKey, summary, calls, advice2>>

\* The network fails on its own.
TransportFails ==
    /\ \E k \in {"doError", "readError"} : Complete([NoReply EXCEPT !.kind = k])
    /\ UNCHANGED <<transactions, last, bounds, held, procs, apiKey, summary, calls, advice2>>

\* A rejected call that is issued a second time.
UpstreamRejects_Retry ==
    /\ \E st \in {StatusTooManyRequests, StatusUnauthorized, StatusServiceUnavailable,
                  StatusInternalServerError} :
          Complete([NoReply EXCEPT !.kind = "response", !.status = st])
    /\ calls' = calls + 1
    /\ UNCHANGED <<transactions, last, bounds, held, procs, apiKey, summary, advice2>>

\* The model answers with a status other than 200.
UpstreamRejects ==
    /\ \E st \in {StatusTooManyRequests, StatusUnauthorized, StatusServiceUnavailable,
                  StatusInternalServerError} :
          Complete([NoReply EXCEPT !.kind = "response", !.status = st])
    /\ UNCHANGED <<transactions, last, bounds, held, procs, apiKey, summary, calls, advice2>>

\* The model answers 200 with a body that is not JSON, carries an error
\* object, or has no choice.
UpstreamMalformed ==
    /\ \E r \in {[NoReply EXCEPT !.kind = "response", !.status = StatusOK],
                 [NoReply EXCEPT !.kind = "response", !.status = StatusOK,
                                 !.parses = TRUE, !.hasError = TRUE,
                                 !.choices = <<(<<"INSIGHTS:", "\n", "-", "a">>)>>],
                 [NoReply EXCEPT !.kind = "response", !.status = StatusOK,
                                 !.parses = TRUE]} :
          Complete(r)
    /\ UNCHANGED <<transactions, last, bounds, held, procs, apiKey, summary, calls, advice2>>

\* The model answers 200 with a text.
UpstreamAnswers ==
    /\ \E text \in ModelTexts :
          Complete([NoReply EXCEPT !.kind = "response", !.status = StatusOK,
                                   !.parses = TRUE, !.choices = <<text>>])
    /\ UNCHANGED <<transactions, last, bounds, held, procs, apiKey, summary, calls, advice2>>

NextAdvice ==
    \/ InvokeNoKey
    \/ InvokeWithKey
    \/ Cancel
    \/ TransportFails
    \/ UpstreamRejects
    \/ UpstreamMalformed
    \/ UpstreamAnswers

SpecAdvice == InitAdvice /\ [][NextAdvice]_vars

(***************************************************************************)
(* Properties of GetFinancialAdvice                                         *)
(***************************************************************************)
\* The results the heuristic generator can give for the summary.
IsHeuristic(resp) ==
    \E o1 \in Orders(DOMAIN summary.Expenses), o2 \in Orders(DOMAIN summary.Expenses) :
        resp = getMockAdvice(summary, o1, o2, resp.Timestamp)

\* The outbound call ended otherwise than with a usable text.
IsFailure(r) ==
    \/ r.kind \in {"doError", "readError"}
    \/ r.kind = "response"
       /\ (r.status # 200 \/ ~r.parses \/ r.hasError \/ Len(r.choices) = 0)

\* C1: when the caller cancels while the model call is in flight,
\* GetFinancialAdvice fails with an error and does not return the heuristic
\* result.
C1_CancellationFails ==
    (pc = "done" /\ apiKey # "" /\ reply.cancelled)
    => (advice.err # NoError /\ ~IsHeuristic(advice.resp))

C3_AtMostOneCall ==
    /\ calls <= 1
    /\ (apiKey = "" => calls = 0)
    /\ (apiKey = "" /\ pc = "done" => advice.err = NoError /\ IsHeuristic(advice.resp))
    /\ (pc = "done" /\ apiKey # "" => calls = 1)

\* An invocation whose single call failed has returned.
C3_Witness ==
    /\ pc = "done"
    /\ apiKey # ""
    /\ IsFailure(reply)
    /\ calls = 1

\* C4: every response GetFinancialAdvice returns has at least one insight
\* and at least one recommendation.
C4_NeverEmpty ==
    advice.done
    => (/\ advice.err = NoError
        /\ Len(advice.resp.Insights) > 0
        /\ Len(advice.resp.Recommendations) > 0)

\* The model answered with an empty text and the response was returned.
C4_Witness ==
    /\ pc = "done"
    /\ reply.kind = "response" /\ reply.status = 200 /\ reply.parses /\ ~reply.hasError
    /\ reply.choices = <<(<<>>)>>
    /\ advice.resp.Advice = <<>>
    /\ Len(advice.resp.Insights) > 0

\* The category of an error of callOpenAI: the status it carries names it,
\* an error without a status has none.
Category(err) ==
    IF err.kind # "HTTPError" THEN "none"
    ELSE IF err.StatusCode = StatusTooManyRequests THEN "ServiceBusy"
    ELSE IF err.StatusCode = StatusInternalServerError THEN "ConfigurationError"
    ELSE IF err.StatusCode = StatusServiceUnavailable THEN "ServiceUnavailable"
    ELSE IF err.StatusCode = StatusBadGateway THEN "UpstreamFailure"
    ELSE "none"

\* C22: a response of the model that is not a success is classified before
\* it is absorbed: rate-limited as service busy, an authorization failure as
\* the internal configuration error, temporary unavailability as service
\* unavailable, and every other non-success status or malformed payload as
\* the generic upstream failure.
C22_StatusClassification ==
    (pc = "done" /\ reply.kind = "response" /\ callOpenAI(reply).err # NoHTTPError)
    => Category(callOpenAI(reply).err) =
           (IF reply.status = StatusTooManyRequests THEN "ServiceBusy"
            ELSE IF reply.status = StatusUnauthorized THEN "ConfigurationError"
            ELSE IF reply.status = StatusServiceUnavailable THEN "ServiceUnavailable"
            ELSE "UpstreamFailure")

\* The section a line opens: a line that holds a marker.
MarkerOf(line) ==
    IF \E k \in 1..Len(line) : line[k] = "INSIGHTS:" THEN "insights"
    ELSE IF \E k \in 1..Len(line) : line[k] = "RECOMMENDATIONS:" THEN "recommendations"
    ELSE IF \E k \in 1..Len(line) : line[k] = "POSITIVE:" THEN "positive"
    ELSE ""

\* The section line i of the text lies in: the one the nearest marker line
\* above it opens, none before the first marker.
SectionAt(lines, i) ==
    LET above == {j \in 1..(i - 1) : MarkerOf(lines[j]) # ""}
    IN  IF above = {} THEN ""
        ELSE MarkerOf(lines[CHOOSE j \in above : \A k \in above : k <= j])

\* The characters of a line that are not white space.
Solid(line) == SelectSeq(line, LAMBDA c : ~IsSpace(c))

IsBulletLine(line) ==
    /\ MarkerOf(line) = ""
    /\ Solid(line) # <<>>
    /\ Head(Solid(line)) \in {"-", BulletGlyph}

\* The bullet lines of a section in order of appearance, glyph and
\* surrounding white space removed.
RECURSIVE BulletsOf(_, _, _)
BulletsOf(lines, section, i) ==
    IF i > Len(lines) THEN <<>>
    ELSE (IF IsBulletLine(lines[i]) /\ SectionAt(lines, i) = section
          THEN <<trim(Tail(trim(lines[i])))>> ELSE <<>>)
         \o BulletsOf(lines, section, i + 1)

\* The model answered with a text and GetFinancialAdvice returned.
Answered ==
    /\ pc = "done"
    /\ reply.kind = "response" /\ ~IsFailure(reply)

HeuristicDates == {<<2024, 1, 15>>, <<2024, 2, 1>>}

\* One income and expenses that put the savings rate in every band and on
\* every band limit: 50, 20, 15, 10, 5, 0 and -20 percent; discretionary
\* expenses in two categories that come to less than, exactly and more than
\* a fifth of the expenses.
HeuristicKinds ==
    {[type |-> "income", amount |-> 10000, category |-> "salary"],
     [type |-> "expense", amount |-> -5000, category |-> "rent"],
     [type |-> "expense", amount |-> -8000, category |-> "rent"],
     [type |-> "expense", amount |-> -8500, category |-> "rent"],
     [type |-> "expense", amount |-> -9000, category |-> "rent"],
     [type |-> "expense", amount |-> -9500, category |-> "rent"],
     [type |-> "expense", amount |-> -10000, category |-> "rent"],
     [type |-> "expense", amount |-> -12000, category |-> "rent"],
     [type |-> "expense", amount |-> -5000, category |-> "dining"],
     [type |-> "expense", amount |-> -1000, category |-> "dining"],
     [type |-> "expense", amount |-> -4000, category |-> "rent"],
     [type |-> "expense", amount |-> -1000, category |-> "shopping"]}

HeuristicTxDomain ==
    {[date |-> d, amount |-> k.amount, category |-> k.category, type |-> k.type] :
        d \in HeuristicDates, k \in HeuristicKinds}

InitHeuristic ==
    /\ transactions \in {NewJSONRepository(data) : data \in Stores(HeuristicTxDomain)}
    /\ GetCategorySummary(transactions).err = NoError
    /\ last = NoCall
    /\ bounds = NoBounds
    /\ held = NoHeld
    /\ procs = NoProcs
    /\ apiKey = ""
    /\ summary = GetCategorySummary(transactions).val
    /\ pc = "idle"
    /\ calls = 0
    /\ reply = NoReply
    /\ advice = NoAdvice
    /\ advice2 = NoAdvice

\* A second GetFinancialAdvice on the same summary, still without a
\* credential.
InvokeAgain ==
    /\ pc = "done"
    /\ apiKey = ""
    /\ ~advice2.done
    /\ \E o1 \in Orders(DOMAIN summary.Expenses), o2 \in Orders(DOMAIN summary.Expenses),
          now \in Clock :
          advice2' = [done |-> TRUE, resp |-> getMockAdvice(summary, o1, o2, now),
                      err |-> NoError]
    /\ UNCHANGED <<transactions, last, bounds, held, procs, apiKey, summary, pc, calls, reply, advice>>

NextHeuristic ==
    \/ InvokeNoKey
    \/ InvokeAgain

SpecHeuristic == InitHeuristic /\ [][NextHeuristic]_vars

(***************************************************************************)
(* Properties of the heuristic generator                                    *)
(***************************************************************************)
\* C5: two calls of the heuristic generator with the same summary return
\* the same advice text, the same insights and the same recommendations.
C5_HeuristicDeterministic ==
    (advice.done /\ advice2.done)
    => (/\ advice.resp.Advice = advice2.resp.Advice
        /\ advice.resp.Insights = advice2.resp.Insights
        /\ advice.resp.Recommendations = advice2.resp.Recommendations)

ExcellentText == "Excellent savings rate of "
RateText == "Your savings rate of "
OnTrackText == "% is on track - aim for 20% for optimal financial health"
RoomText == "% has room for improvement - consider cutting discretionary spending"
OverspendingText ==
    "You're currently spending more than you earn - immediate action needed to avoid debt"

\* The insight prints the rate after its opening words.
StatesRate(insight, rate) ==
    /\ Len(insight) >= 1 + Len(Fmt1(rate))
    /\ SubSeq(insight, 2, 1 + Len(Fmt1(rate))) = Fmt1(rate)

\* C6: the first insight of the heuristic follows the band of savingsRate:
\* excellent above 20, on track from 10 to 20, room for improvement from 0
\* to 10, overspending only below 0; in every band it states the rate.
C6_SavingsBands ==
    advice.done
    => LET rate == summary.Summary.SavingsRate
           first == advice.resp.Insights[1]
       IN  /\ (rate > 2000 => first[1] = ExcellentText)
           /\ (rate > 1000 /\ rate <= 2000
                  => first[1] = RateText /\ first[Len(first)] = OnTrackText)
           /\ (rate >= 0 /\ rate < 1000
                  => first[1] = RateText /\ first[Len(first)] = RoomText)
           /\ (rate = 1000
                  => first[1] = RateText /\ first[Len(first)] \in {OnTrackText, RoomText})
           /\ (first[1] = OverspendingText => rate < 0)
           /\ StatesRate(first, rate)

\* C6, amended: excellent above 20, on track above 10 up to 20, room for
\* improvement above 0 up to 10, each stating the rate to one decimal; at 0
\* and below the overspending insight, which states no rate.
C6_SavingsBandsAmended ==
    advice.done
    => LET rate == summary.Summary.SavingsRate
           first == advice.resp.Insights[1]
       IN  /\ (rate > 2000
                  => first[1] = ExcellentText /\ StatesRate(first, rate))
           /\ (rate > 1000 /\ rate <= 2000
                  => /\ first[1] = RateText /\ first[Len(first)] = OnTrackText
                     /\ StatesRate(first, rate))
           /\ (rate > 0 /\ rate <= 1000
                  => /\ first[1] = RateText /\ first[Len(first)] = RoomText
                     /\ StatesRate(first, rate))
           /\ (rate <= 0 => first = <<OverspendingText>>)

\* Income equal to expenses: a rate of exactly 0 got the overspending
\* insight.
C6_Witness ==
    /\ advice.done
    /\ summary.Summary.TotalIncome > 0
    /\ summary.Summary.SavingsRate = 0
    /\ advice.resp.Insights[1] = <<OverspendingText>>

TransferText ==
    <<"Set up automatic transfers to savings account to reach a 20% savings rate">>
DiscretionaryText ==
    "Consider reducing discretionary spending (dining, entertainment, shopping) - currently $"
TrackText ==
    <<"Track your spending weekly to identify patterns and opportunities to save">>
EmergencyText == <<"Build an emergency fund covering 3-6 months of expenses">>

\* The total of an expense category of the summary, 0 when it has none.
ExpenseTotal(c) ==
    IF c \in DOMAIN summary.Expenses THEN summary.Expenses[c].Total ELSE 0

\* The discretionary expenses of the summary come to more than a fifth of
\* its expenses.
DiscretionaryHigh ==
    5 * (ExpenseTotal("dining") + ExpenseTotal("entertainment")
         + ExpenseTotal("shopping") + ExpenseTotal("subscriptions"))
        > summary.Summary.TotalExpenses

\* C25: the heuristic recommendations are, in this order, the transfer
\* recommendation if and only if savingsRate < 20, the discretionary
\* recommendation if and only if the discretionary categories together
\* strictly exceed 20 % of totalExpenses, then always the weekly tracking
\* and the emergency fund recommendations: between 2 and 4 items.
C25_Recommendations ==
    advice.done =>
        LET recs == advice.resp.Recommendations
            transfer == summary.Summary.SavingsRate < 2000
            before == IF transfer THEN 1 ELSE 0
            n == before + (IF DiscretionaryHigh THEN 1 ELSE 0) + 2
        IN  /\ Len(recs) = n
            /\ n \in 2..4
            /\ (transfer => recs[1] = TransferText)
            /\ (DiscretionaryHigh => Head(recs[before + 1]) = DiscretionaryText)
            /\ recs[n - 1] = TrackText
            /\ recs[n] = EmergencyText

\* Dining is exactly a fifth of the expenses and there is no income: the
\* transfer recommendation and the two fixed ones, nothing about
\* discretionary spending.
C25_Witness ==
    /\ advice.done
    /\ summary.Summary.TotalExpenses > 0
    /\ ExpenseTotal("dining") * 5 = summary.Summary.TotalExpenses
    /\ Len(advice.resp.Recommendations) = 3
    /\ advice.resp.Recommendations[1] = TransferText

\* The largest-expense insight for category c of the summary.
LargestText(c) ==
    <<"Your largest expense is ", c, " at $">>
    \o Fmt2(summary.Expenses[c].Total) \o <<" (">>
    \o Fmt1Share(summary.Expenses[c].Total, summary.Summary.TotalExpenses)
    \o <<"% of spending)">>

IsLargestText(insight) == Head(insight) = "Your largest expense is "

====
